---- MODULE Spec2Model ----
(***************************************************************************)
(* The interactive point-annotation widget of bag_finder (ImagePreview),   *)
(* with the parts of BagPage and App that drive it: the prompt buttons,    *)
(* the RESET counter, the session life cycle and the error banner.         *)
(*                                                                         *)
(* React runs every event handler, the render it schedules and the effects *)
(* of that render before the next event is handled, so one action is one   *)
(* handler together with the effects it triggers.  An async handler is     *)
(* split at its await: the part before it is one action, and each way the  *)
(* awaited call can end is another.                                        *)
(***************************************************************************)
EXTENDS Integers, Sequences, FiniteSets, TLC

(***************************************************************************)
(* Bounds of the model.                                                    *)
(***************************************************************************)
\* longest history a click may still extend
MaxHistory == 2
\* RESET presses modelled
MaxResets == 2
\* sessions the server issues; uploads are accepted while one is left
MaxSessions == 2
\* the same two bounds in the specification of the whole application, where
\* every session adds a widget instance with a history of its own
MaxAppHistory == 1
MaxAppResets == 1

(***************************************************************************)
(* JavaScript values.                                                      *)
(***************************************************************************)
\* null (SessionResponse | null, serverSize | null, a missing detail)
Null == [null |-> TRUE]

(***************************************************************************)
(* Numbers.  The click coordinates are JavaScript numbers; the model       *)
(* computes with exact fractions <<n, d>>, d > 0, in lowest terms.         *)
(***************************************************************************)
Abs(n) == IF n < 0 THEN -n ELSE n

RECURSIVE GCD(_, _)
GCD(a, b) == IF b = 0 THEN a ELSE GCD(b, a % b)

Norm(n, d) ==
  LET s == IF d < 0 THEN -1 ELSE 1
      g == GCD(Abs(n), Abs(d))
  IN  <<(s * n) \div g, (s * d) \div g>>

Num(n) == <<n, 1>>
RAdd(a, b) == Norm(a[1] * b[2] + b[1] * a[2], a[2] * b[2])
RSub(a, b) == Norm(a[1] * b[2] - b[1] * a[2], a[2] * b[2])
RMul(a, b) == Norm(a[1] * b[1], a[2] * b[2])
RDiv(a, b) == Norm(a[1] * b[2], a[2] * b[1])
RLt(a, b) == a[1] * b[2] < b[1] * a[2]
RLe(a, b) == a[1] * b[2] <= b[1] * a[2]
\* Math.max / Math.min
MathMax(a, b) == IF RLt(a, b) THEN b ELSE a
MathMin(a, b) == IF RLt(b, a) THEN b ELSE a

(***************************************************************************)
(* The inputs of the model.                                                *)
(***************************************************************************)
\* image_info of the images a user uploads
ImageInfos == {[width |-> 400, height |-> 400], [width |-> 400, height |-> 200]}
\* files dropped on the upload zone: MIME type, size in bytes, extension of
\* the name (type is '' when the browser knows no type for the extension)
MB == 1024 * 1024
Files ==
  {[type |-> "image/png", size |-> 2 * MB, ext |-> ".png"],
   [type |-> "image/png", size |-> 15 * MB, ext |-> ".png"],
   [type |-> "image/png", size |-> 15 * MB + 1, ext |-> ".png"],
   [type |-> "application/pdf", size |-> 2 * MB, ext |-> ".pdf"],
   [type |-> "", size |-> 2 * MB, ext |-> ".webp"]}
\* getBoundingClientRect() of the <img>: width, height
Rects == {[width |-> 800, height |-> 400]}
\* click position relative to the rect (clientX - rect.left, clientY - rect.top):
\* left of the image, inside it, right of and below it
Clicks == {[x |-> -50, y |-> 100], [x |-> 300, y |-> 100], [x |-> 900, y |-> 500]}
\* the one click and the one image of the specification of the whole
\* application
AppClicks == {[x |-> 300, y |-> 100]}
AppImageInfos == {[width |-> 400, height |-> 400]}
\* the same three inputs, widened, for the specification of the clicks alone
GeomImageInfos ==
  {[width |-> 400, height |-> 400],
   [width |-> 400, height |-> 200],
   [width |-> 300, height |-> 500]}
GeomRects ==
  {[width |-> 800, height |-> 400],
   [width |-> 300, height |-> 400],
   [width |-> 400, height |-> 400],
   [width |-> 1, height |-> 7]}
GeomClicks ==
  {[x |-> -50, y |-> -50], [x |-> 200, y |-> 0], [x |-> 100, y |-> 100],
   [x |-> 600, y |-> 400], [x |-> 900, y |-> 500]}
\* sizes at which the contour overlay (the <svg>) may be laid out
SvgRects ==
  {[width |-> 250, height |-> 250],
   [width |-> 800, height |-> 400],
   [width |-> 300, height |-> 400]}
\* polygons the prediction endpoint may return
Poly1 == <<<<0, 0>>, <<500, 0>>, <<500, 500>>>>
\* PredictResponse (iou is not read by the widget)
Responses ==
  {[contours |-> <<>>, width |-> 400, height |-> 400],
   [contours |-> <<Poly1>>, width |-> 500, height |-> 500]}
\* error.response.data.detail of a failed request; Null when there is no
\* response (transport failure, the 30 s axios timeout)
Details == {Null, [string |-> "Session expired"]}

\* the range inputs of the price filter: min="0" max="500000" step="10000"
PriceMax == 500000
PriceStep == 10000
\* the positions the sliders are moved to: the two ends, the middle, and
\* the steps next to them
SliderSteps == {0, 1, 24, 25, 26, 49, PriceMax \div PriceStep}
SliderValues == {k * PriceStep : k \in SliderSteps}

\* the colour groups and the categories of the filter panel (two of the nine
\* groups, one of the eight categories)
ColorGroups == {"1", "3"}
Categories == {"shoulder"}
IncludedColors(groupId) ==
  IF groupId = "1" THEN {"black"} ELSE {"white", "ivory"}

\* responses of the search service: top5 and gallery10 as lists of bag ids
SearchResponses ==
  { [top5 |-> <<>>, gallery10 |-> <<>>],
    [top5 |-> <<11, 12>>, gallery10 |-> <<21>>] }

\* error.response.data.detail of a validation failure: FastAPI's list of
\* errors; the entries carry msg, and the code also reads detail
ArrayDetails ==
  { [array |-> <<[msg |-> "field required"]>>],
    [array |-> <<[msg |-> "field required"], [detail |-> "bad label"],
                 [type |-> "value_error"]>>] }

(***************************************************************************)
(* The click-to-image coordinate transform of handleImageClick.            *)
(***************************************************************************)
\* mutant of DisplayBox: the comparison is the other way round (cover fit)
DisplayBoxCover(rect, serverW, serverH) ==
  LET imageAspect == RDiv(Num(serverW), Num(serverH))
      containerAspect == RDiv(Num(rect.width), Num(rect.height))
  IN  IF RLt(imageAspect, containerAspect)
      THEN LET displayHeight == RDiv(Num(rect.width), imageAspect)
           IN  [displayWidth |-> Num(rect.width),
                displayHeight |-> displayHeight,
                offsetX |-> Num(0),
                offsetY |-> RDiv(RSub(Num(rect.height), displayHeight), Num(2))]
      ELSE LET displayWidth == RMul(Num(rect.height), imageAspect)
           IN  [displayWidth |-> displayWidth,
                displayHeight |-> Num(rect.height),
                offsetX |-> RDiv(RSub(Num(rect.width), displayWidth), Num(2)),
                offsetY |-> Num(0)]

\* mutant of DisplayBox: the letterbox offsets are forgotten
DisplayBoxNoOffset(rect, serverW, serverH) ==
  LET imageAspect == RDiv(Num(serverW), Num(serverH))
      containerAspect == RDiv(Num(rect.width), Num(rect.height))
  IN  IF RLt(containerAspect, imageAspect)
      THEN [displayWidth |-> Num(rect.width),
            displayHeight |-> RDiv(Num(rect.width), imageAspect),
            offsetX |-> Num(0),
            offsetY |-> Num(0)]
      ELSE [displayWidth |-> RMul(Num(rect.height), imageAspect),
            displayHeight |-> Num(rect.height),
            offsetX |-> Num(0),
            offsetY |-> Num(0)]

\* the box in which the image is drawn inside rect (object-fit: contain)
DisplayBox(rect, serverW, serverH) ==
  LET imageAspect == RDiv(Num(serverW), Num(serverH))
      containerAspect == RDiv(Num(rect.width), Num(rect.height))
  IN  IF RLt(containerAspect, imageAspect)
      THEN LET displayHeight == RDiv(Num(rect.width), imageAspect)
           IN  [displayWidth |-> Num(rect.width),
                displayHeight |-> displayHeight,
                offsetX |-> Num(0),
                offsetY |-> RDiv(RSub(Num(rect.height), displayHeight), Num(2))]
      ELSE LET displayWidth == RMul(Num(rect.height), imageAspect)
           IN  [displayWidth |-> displayWidth,
                displayHeight |-> Num(rect.height),
                offsetX |-> RDiv(RSub(Num(rect.width), displayWidth), Num(2)),
                offsetY |-> Num(0)]

\* mutant of Clamp: the upper bound is forgotten
ClampNoUpperBound(v, limit) == MathMax(Num(0), v)

\* mutant of Clamp: the lower bound is forgotten
ClampNoLowerBound(v, limit) == MathMin(Num(limit), v)

\* Math.max(0, Math.min(limit, v))
Clamp(v, limit) == MathMax(Num(0), MathMin(Num(limit), v))

\* [imageX, imageY] of a click at (x, y) in rect, for a serverW x serverH image
ImagePoint(click, rect, serverW, serverH) ==
  LET box == DisplayBox(rect, serverW, serverH)
      relativeX == RDiv(RSub(Num(click.x), box.offsetX), box.displayWidth)
      relativeY == RDiv(RSub(Num(click.y), box.offsetY), box.displayHeight)
  IN  <<Clamp(RMul(relativeX, Num(serverW)), serverW),
        Clamp(RMul(relativeY, Num(serverH)), serverH)>>

\* mutant of Label: only 'add' gives a foreground label
LabelOnlyAddIsForeground(mode) == IF mode = "add" THEN 1 ELSE 0

\* label of a click under a prompt mode: 0 background, 1 foreground
Label(mode) == IF mode = "remove" THEN 0 ELSE 1

\* String.prototype.startsWith
StartsWith(str, prefix) ==
  /\ Len(str) >= Len(prefix)
  /\ SubSeq(str, 1, Len(prefix)) = prefix

(***************************************************************************)
(* The message handleImageClick's catch hands to onError.                  *)
(***************************************************************************)
DefaultPredictError == "mask prediction failed"

\* d?.msg || d?.detail || 'Validation error'
EntryMessage(d) ==
  IF "msg" \in DOMAIN d THEN d.msg
  ELSE IF "detail" \in DOMAIN d THEN d.detail
  ELSE "Validation error"

RECURSIVE Join(_)
Join(msgs) ==
  IF Len(msgs) = 0 THEN ""
  ELSE IF Len(msgs) = 1 THEN msgs[1]
  ELSE msgs[1] \o ", " \o Join(Tail(msgs))

\* mutant of PredictErrorMessage: handleSearch's rule, typeof detail === 'string'
PredictErrorMessageStringOnly(detail) ==
  IF "string" \in DOMAIN detail /\ detail.string # "" THEN detail.string
  ELSE DefaultPredictError

PredictErrorMessage(detail) ==
  IF "array" \in DOMAIN detail
  THEN Join([i \in 1..Len(detail.array) |-> EntryMessage(detail.array[i])])
  ELSE IF "string" \in DOMAIN detail /\ detail.string # "" THEN detail.string
  ELSE DefaultPredictError

(***************************************************************************)
(* State.                                                                  *)
(***************************************************************************)
VARIABLES
  \* App
  session,      \* SessionResponse or Null
  imageUrl,     \* 0 for '', n for the object URL made for session n
  error,        \* the message of the error banner, "" when hidden
  \* BagPage
  promptMode,   \* "add", "remove" or "null"
  resetSignal,  \* number of RESET presses
  showResults,  \* the results and the filter panel are displayed
  searchResults,\* the response of the last search that succeeded, or Null
  isSearching,  \* a search is outstanding (SEARCH is disabled)
  selectedColorGroups, \* ids of the colour groups toggled on
  selectedCategories,  \* the categories toggled on
  minPrice,     \* the two ends of the price range
  maxPrice,
  \* ImagePreview (the mounted instance, if any)
  instance,     \* which mount of ImagePreview this is; 0 before the first
  points,       \* history: [imageX, imageY] of the accepted clicks
  labels,       \* history: their labels
  contours,     \* polygons of the last applied response
  serverSize,   \* [width, height] of that response, or Null
  isPredicting, \* a prediction request of this instance is outstanding
  \* the server and the network
  nextSessionId,\* the id the server issues next
  uploads,      \* number of createSession calls awaiting their response
  inflight,     \* predictMask calls awaiting their response
  searches,     \* searchBags calls awaiting their response
  \* what the last handler did
  lastEvent,    \* its name ("click_dropped" for a click it ignored)
  lastInput,    \* the argument it received (a file, a click in its rect,
                \* a response, an error detail), or Null
  errCalls,     \* the messages it passed to onError, in order
  \* history variable: clicks accepted since the annotation was last cleared
  accepted

appVars == <<session, imageUrl, error>>
pageVars == <<promptMode, resetSignal>>
widgetVars == <<instance, points, labels, contours, serverSize, isPredicting>>
netVars == <<nextSessionId, uploads, inflight>>
searchVars == <<showResults, searchResults, isSearching, searches>>
filterVars == <<selectedColorGroups, selectedCategories, minPrice, maxPrice>>
vars == <<appVars, pageVars, widgetVars, netVars, searchVars, filterVars,
          lastEvent, lastInput, errCalls, accepted>>

\* ImagePreview is rendered by BagPage exactly when there is a session
Mounted == session # Null

\* s with its i-th element removed
RemoveAt(s, i) == SubSeq(s, 1, i - 1) \o SubSeq(s, i + 1, Len(s))

Init ==
  /\ session = Null
  /\ imageUrl = 0
  /\ error = ""
  /\ promptMode = "add"
  /\ resetSignal = 0
  /\ instance = 0
  /\ points = <<>>
  /\ labels = <<>>
  /\ contours = <<>>
  /\ serverSize = Null
  /\ isPredicting = FALSE
  /\ nextSessionId = 1
  /\ uploads = 0
  /\ inflight = <<>>
  /\ showResults = FALSE
  /\ searchResults = Null
  /\ isSearching = FALSE
  /\ searches = <<>>
  /\ selectedColorGroups = {}
  /\ selectedCategories = {}
  /\ minPrice = 0
  /\ maxPrice = 500000
  /\ lastEvent = "init"
  /\ lastInput = Null
  /\ errCalls = <<>>
  /\ accepted = 0

(***************************************************************************)
(* ImageUpload and App: the session life cycle.                            *)
(***************************************************************************)
\* mutant of MaxFileSize: the limit is 16MB
MaxFileSize16MB == 16 * MB

MaxFileSize == 15 * MB
NotAnImageError == "only image files can be uploaded"
TooLargeError == "file size cannot exceed 15MB"
UploadError == "image upload failed"

\* mutant of SessionEffect: setContours([]) and setServerSize(null) are
\* forgotten
SessionEffectKeepsContours ==
  /\ points' = <<>>
  /\ labels' = <<>>
  /\ UNCHANGED <<contours, serverSize>>

\* ImagePreview's effect on [session.session_id, imageUrl]
SessionEffect ==
  /\ points' = <<>>
  /\ labels' = <<>>
  /\ contours' = <<>>
  /\ serverSize' = Null

\* the dropzone's accept option, 'image/*': ['.jpeg', '.jpg', '.png',
\* '.webp']: a file passes when its type is an image type or its name has
\* one of the extensions
AcceptedExtensions == {".jpeg", ".jpg", ".png", ".webp"}
DropzoneAccepts(file) ==
  StartsWith(file.type, "image/") \/ file.ext \in AcceptedExtensions

\* the acceptedFiles the dropzone hands to onDrop for one dropped file
\* (multiple: false); a file it does not accept goes to the rejections,
\* which onDrop does not read
AcceptedFiles(file) == IF DropzoneAccepts(file) THEN <<file>> ELSE <<>>

\* ImageUpload.onDrop up to its await: return on an empty list, validate
\* the first file, call createSession
onDrop(acceptedFiles) ==
  /\ ~Mounted
  /\ nextSessionId + uploads <= MaxSessions
  /\ IF Len(acceptedFiles) = 0
     THEN /\ errCalls' = <<>>
          /\ UNCHANGED <<error, uploads>>
     ELSE LET file == acceptedFiles[1]
          IN  IF ~StartsWith(file.type, "image/")
              THEN /\ error' = NotAnImageError
                   /\ errCalls' = <<NotAnImageError>>
                   /\ UNCHANGED uploads
              ELSE IF file.size > MaxFileSize
              THEN /\ error' = TooLargeError
                   /\ errCalls' = <<TooLargeError>>
                   /\ UNCHANGED uploads
              ELSE /\ uploads' = uploads + 1
                   /\ errCalls' = <<>>
                   /\ UNCHANGED error
  /\ lastEvent' = "onDrop"
  /\ UNCHANGED <<searchVars, filterVars>>
  /\ UNCHANGED <<session, imageUrl, pageVars, widgetVars, nextSessionId,
                 inflight, accepted>>

\* a file is dropped on the zone (or picked in its dialog)
Drop(file) ==
  /\ onDrop(AcceptedFiles(file))
  /\ lastInput' = file

\* createSession resolves: onDrop calls onSessionCreated, which is
\* App.handleSessionCreated.  ImagePreview mounts if there was no session;
\* if there was one (two uploads were awaited), the mounted instance gets a
\* new session prop and its session effect clears the annotation.
createSessionResolved(info) ==
  /\ uploads > 0
  /\ session' = [session_id |-> nextSessionId, image_info |-> info]
  /\ imageUrl' = nextSessionId
  /\ error' = ""
  /\ nextSessionId' = nextSessionId + 1
  /\ uploads' = uploads - 1
  /\ SessionEffect
  /\ IF Mounted
     THEN UNCHANGED <<instance, isPredicting>>
     ELSE /\ instance' = instance + 1
          /\ isPredicting' = FALSE
  /\ accepted' = 0
  /\ lastEvent' = "createSessionResolved"
  /\ UNCHANGED <<searchVars, filterVars>>
  /\ lastInput' = info
  /\ errCalls' = <<>>
  /\ UNCHANGED <<pageVars, inflight>>

\* createSession rejects: onDrop's catch calls onError
createSessionRejected ==
  /\ uploads > 0
  /\ uploads' = uploads - 1
  /\ error' = UploadError
  /\ errCalls' = <<UploadError>>
  /\ lastEvent' = "createSessionRejected"
  /\ UNCHANGED <<searchVars, filterVars>>
  /\ lastInput' = Null
  /\ UNCHANGED <<session, imageUrl, pageVars, widgetVars, nextSessionId,
                 inflight, accepted>>

\* App.handleCloseError, the close button of the error banner
handleCloseError ==
  /\ error # ""
  /\ error' = ""
  /\ lastEvent' = "handleCloseError"
  /\ UNCHANGED <<searchVars, filterVars>>
  /\ lastInput' = Null
  /\ errCalls' = <<>>
  /\ UNCHANGED <<session, imageUrl, pageVars, widgetVars, netVars, accepted>>

(***************************************************************************)
(* BagPage: the buttons shown while there is a session.                    *)
(***************************************************************************)
\* NEW IMAGE: App.handleReset, then promptMode := null.  ImagePreview
\* unmounts and its state is gone.
NewImage ==
  /\ Mounted
  /\ session' = Null
  /\ imageUrl' = 0
  /\ error' = ""
  /\ promptMode' = "null"
  /\ points' = <<>>
  /\ labels' = <<>>
  /\ contours' = <<>>
  /\ serverSize' = Null
  /\ isPredicting' = FALSE
  /\ accepted' = 0
  /\ showResults' = FALSE
  /\ searchResults' = Null
  /\ lastEvent' = "NewImage"
  /\ lastInput' = Null
  /\ errCalls' = <<>>
  /\ UNCHANGED <<resetSignal, instance, netVars, isSearching, searches, filterVars>>

\* ADD and REMOVE
\* mutant of setPromptMode: switching the mode starts the annotation over
setPromptModeClearsAnnotation(mode) ==
  /\ Mounted
  /\ promptMode' = mode
  /\ points' = <<>>
  /\ labels' = <<>>
  /\ contours' = <<>>
  /\ serverSize' = Null
  /\ lastEvent' = "setPromptMode"
  /\ UNCHANGED <<searchVars, filterVars>>
  /\ lastInput' = [mode |-> mode]
  /\ errCalls' = <<>>
  /\ UNCHANGED <<appVars, resetSignal, instance, isPredicting, netVars, accepted>>

setPromptMode(mode) ==
  /\ Mounted
  /\ promptMode' = mode
  /\ lastEvent' = "setPromptMode"
  /\ UNCHANGED <<searchVars, filterVars>>
  /\ lastInput' = [mode |-> mode]
  /\ errCalls' = <<>>
  /\ UNCHANGED <<appVars, resetSignal, widgetVars, netVars, accepted>>

\* mutant of ResetEffect: only the newest pair is removed
ResetEffectDropsLastPair ==
  IF resetSignal' > 0
  THEN /\ points' = SubSeq(points, 1, Len(points) - 1)
       /\ labels' = SubSeq(labels, 1, Len(labels) - 1)
       /\ contours' = <<>>
       /\ serverSize' = Null
  ELSE UNCHANGED <<points, labels, contours, serverSize>>

\* mutant of ResetEffect: setLabels([]) is forgotten
ResetEffectKeepsLabels ==
  IF resetSignal' > 0
  THEN /\ points' = <<>>
       /\ contours' = <<>>
       /\ serverSize' = Null
       /\ UNCHANGED labels
  ELSE UNCHANGED <<points, labels, contours, serverSize>>

\* mutant of ResetEffect: setContours([]) is forgotten
ResetEffectKeepsContours ==
  IF resetSignal' > 0
  THEN /\ points' = <<>>
       /\ labels' = <<>>
       /\ serverSize' = Null
       /\ UNCHANGED contours
  ELSE UNCHANGED <<points, labels, contours, serverSize>>

\* ImagePreview's effect on [resetSignal]
ResetEffect ==
  IF resetSignal' > 0
  THEN /\ points' = <<>>
       /\ labels' = <<>>
       /\ contours' = <<>>
       /\ serverSize' = Null
  ELSE UNCHANGED <<points, labels, contours, serverSize>>

\* mutant of ResetPrompt: setResetSignal(1) in place of v => v + 1
ResetPromptSetsOne ==
  /\ Mounted
  /\ resetSignal < MaxResets
  /\ resetSignal' = 1
  /\ promptMode' = "add"
  /\ ResetEffect
  /\ accepted' = 0
  /\ lastEvent' = "ResetPrompt"
  /\ UNCHANGED <<searchVars, filterVars>>
  /\ lastInput' = Null
  /\ errCalls' = <<>>
  /\ UNCHANGED <<appVars, instance, isPredicting, netVars>>

\* mutant of ResetPrompt: the press also cancels the outstanding request
ResetPromptCancelsRequest ==
  /\ Mounted
  /\ resetSignal < MaxResets
  /\ resetSignal' = resetSignal + 1
  /\ promptMode' = "add"
  /\ ResetEffect
  /\ accepted' = 0
  /\ lastEvent' = "ResetPrompt"
  /\ UNCHANGED <<searchVars, filterVars>>
  /\ lastInput' = Null
  /\ errCalls' = <<>>
  /\ inflight' = <<>>
  /\ isPredicting' = FALSE
  /\ UNCHANGED <<appVars, instance, nextSessionId, uploads>>

\* RESET: resetSignal + 1 and promptMode := 'add'; then the effect
ResetPrompt ==
  /\ Mounted
  /\ resetSignal < MaxResets
  /\ resetSignal' = resetSignal + 1
  /\ promptMode' = "add"
  /\ ResetEffect
  /\ accepted' = 0
  /\ lastEvent' = "ResetPrompt"
  /\ UNCHANGED <<searchVars, filterVars>>
  /\ lastInput' = Null
  /\ errCalls' = <<>>
  /\ UNCHANGED <<appVars, instance, isPredicting, netVars>>

(***************************************************************************)
(* BagPage: the search and the filter panel.                               *)
(***************************************************************************)
DefaultSearchError == "search failed"

\* typeof detail === 'string' ? detail : default
SearchErrorMessage(detail) ==
  IF "string" \in DOMAIN detail THEN detail.string ELSE DefaultSearchError

\* the included colours of the selected groups
SelectedColors == UNION {IncludedColors(g) : g \in selectedColorGroups}

\* handleSearch up to its await; SEARCH is rendered when there is a session
\* and is disabled while isSearching
handleSearch ==
  /\ Mounted
  /\ ~isSearching
  /\ isSearching' = TRUE
  /\ searches' = Append(searches,
       [session_id |-> session.session_id, colors |-> SelectedColors])
  /\ lastEvent' = "handleSearch"
  /\ lastInput' = Null
  /\ errCalls' = <<>>
  /\ UNCHANGED <<appVars, pageVars, widgetVars, netVars, showResults,
                 searchResults, filterVars, accepted>>

\* mutant of searchBagsResolved: the results of a search are kept only when
\* its session is still the active one
searchBagsResolvedForSession(i, results) ==
  /\ i \in 1..Len(searches)
  /\ searches' = RemoveAt(searches, i)
  /\ IF Mounted /\ session.session_id = searches[i].session_id
     THEN /\ searchResults' = results
          /\ showResults' = TRUE
     ELSE UNCHANGED <<searchResults, showResults>>
  /\ isSearching' = FALSE
  /\ lastEvent' = "searchBagsResolved"
  /\ lastInput' = results
  /\ errCalls' = <<>>
  /\ UNCHANGED <<appVars, pageVars, widgetVars, netVars, filterVars, accepted>>

\* handleSearch after its await, the call succeeded; BagPage stays mounted
\* through NEW IMAGE, so its setters always apply
searchBagsResolved(i, results) ==
  /\ i \in 1..Len(searches)
  /\ searches' = RemoveAt(searches, i)
  /\ searchResults' = results
  /\ showResults' = TRUE
  /\ isSearching' = FALSE
  /\ lastEvent' = "searchBagsResolved"
  /\ lastInput' = results
  /\ errCalls' = <<>>
  /\ UNCHANGED <<appVars, pageVars, widgetVars, netVars, filterVars, accepted>>

\* handleSearch after its await, the call failed
searchBagsRejected(i, detail) ==
  /\ i \in 1..Len(searches)
  /\ searches' = RemoveAt(searches, i)
  /\ error' = SearchErrorMessage(detail)
  /\ errCalls' = <<SearchErrorMessage(detail)>>
  /\ isSearching' = FALSE
  /\ lastEvent' = "searchBagsRejected"
  /\ lastInput' = detail
  /\ UNCHANGED <<session, imageUrl, pageVars, widgetVars, netVars, showResults,
                 searchResults, filterVars, accepted>>

\* the filter panel is rendered when showResults
toggleColorGroup(groupId) ==
  /\ showResults
  /\ selectedColorGroups' =
       IF groupId \in selectedColorGroups
       THEN selectedColorGroups \ {groupId}
       ELSE selectedColorGroups \cup {groupId}
  /\ lastEvent' = "toggleColorGroup"
  /\ lastInput' = [groupId |-> groupId]
  /\ errCalls' = <<>>
  /\ UNCHANGED <<appVars, pageVars, widgetVars, netVars, searchVars,
                 selectedCategories, minPrice, maxPrice, accepted>>

toggleCategory(category) ==
  /\ showResults
  /\ selectedCategories' =
       IF category \in selectedCategories
       THEN selectedCategories \ {category}
       ELSE selectedCategories \cup {category}
  /\ lastEvent' = "toggleCategory"
  /\ lastInput' = [category |-> category]
  /\ errCalls' = <<>>
  /\ UNCHANGED <<appVars, pageVars, widgetVars, netVars, searchVars,
                 selectedColorGroups, minPrice, maxPrice, accepted>>

\* mutant of onMinPriceChange: value <= maxPrice
onMinPriceChangeMayReach(value) ==
  /\ showResults
  /\ IF value <= maxPrice THEN minPrice' = value ELSE UNCHANGED minPrice
  /\ lastEvent' = "onMinPriceChange"
  /\ lastInput' = [value |-> value]
  /\ errCalls' = <<>>
  /\ UNCHANGED <<appVars, pageVars, widgetVars, netVars, searchVars,
                 selectedColorGroups, selectedCategories, maxPrice, accepted>>

\* onChange of the lower range input
onMinPriceChange(value) ==
  /\ showResults
  /\ IF value < maxPrice THEN minPrice' = value ELSE UNCHANGED minPrice
  /\ lastEvent' = "onMinPriceChange"
  /\ lastInput' = [value |-> value]
  /\ errCalls' = <<>>
  /\ UNCHANGED <<appVars, pageVars, widgetVars, netVars, searchVars,
                 selectedColorGroups, selectedCategories, maxPrice, accepted>>

\* onChange of the upper range input
onMaxPriceChange(value) ==
  /\ showResults
  /\ IF value > minPrice THEN maxPrice' = value ELSE UNCHANGED maxPrice
  /\ lastEvent' = "onMaxPriceChange"
  /\ lastInput' = [value |-> value]
  /\ errCalls' = <<>>
  /\ UNCHANGED <<appVars, pageVars, widgetVars, netVars, searchVars,
                 selectedColorGroups, selectedCategories, minPrice, accepted>>

\* the RESET button of the filter panel
FilterReset ==
  /\ showResults
  /\ selectedCategories' = {}
  /\ selectedColorGroups' = {}
  /\ minPrice' = 0
  /\ maxPrice' = 500000
  /\ lastEvent' = "FilterReset"
  /\ lastInput' = Null
  /\ errCalls' = <<>>
  /\ UNCHANGED <<appVars, pageVars, widgetVars, netVars, searchVars, accepted>>

(***************************************************************************)
(* ImagePreview: a click on the image, and the ways its request ends.      *)
(***************************************************************************)
\* The browser lays the container out at a new size and React renders the
\* widget again. ImagePreview registers no resize listener and its render
\* calls no setter: the size is read only at the next click
\* (getBoundingClientRect) and by the overlay's viewBox.
Resize(rect) ==
  /\ Mounted
  /\ lastEvent' = "Resize"
  /\ UNCHANGED <<searchVars, filterVars>>
  /\ lastInput' = [rect |-> rect]
  /\ errCalls' = <<>>
  /\ UNCHANGED <<appVars, pageVars, widgetVars, netVars, accepted>>

\* mutant of ClickIgnored: isPredicting is not consulted
ClickIgnoredNoPending == imageUrl = 0

\* handleImageClick's early return
ClickIgnored == isPredicting \/ imageUrl = 0

\* mutant of predictMask: only the new point and label are sent
predictMaskNewPointOnly(sessionId, newPoints, newLabels) ==
  [session_id |-> sessionId,
   points |-> <<newPoints[Len(newPoints)]>>,
   labels |-> <<newLabels[Len(newLabels)]>>]

\* the payload apiService.predictMask posts to /predict
predictMask(sessionId, newPoints, newLabels) ==
  [session_id |-> sessionId, points |-> newPoints, labels |-> newLabels]

\* a request in flight: the payload, and the render it was issued from (the
\* ImagePreview instance and the resetSignal it saw, which the code keeps
\* nowhere); superseded tells that the instance has issued a request since
Request(payload) ==
  [session_id |-> payload.session_id,
   points |-> payload.points,
   labels |-> payload.labels,
   instance |-> instance,
   resetSignal |-> resetSignal,
   superseded |-> FALSE]

\* the requests in flight when the mounted instance issues one more: its
\* earlier ones are no longer its most recent
Supersede(requests) ==
  [k \in 1..Len(requests) |->
    IF requests[k].instance = instance
    THEN [requests[k] EXCEPT !.superseded = TRUE]
    ELSE requests[k]]

\* handleImageClick up to its await
handleImageClick(click, rect) ==
  /\ Mounted
  /\ imageUrl # 0
  /\ IF ClickIgnored
     THEN /\ lastEvent' = "click_dropped"
          /\ UNCHANGED <<points, labels, isPredicting, inflight, accepted>>
     ELSE LET serverW == session.image_info.width
              serverH == session.image_info.height
              newPoints == Append(points, ImagePoint(click, rect, serverW, serverH))
              newLabels == Append(labels, Label(promptMode))
          IN  /\ Len(points) < MaxHistory
              /\ points' = newPoints
              /\ labels' = newLabels
              /\ isPredicting' = TRUE
              /\ inflight' = Append(Supersede(inflight),
                   Request(predictMask(session.session_id, newPoints, newLabels)))
              /\ accepted' = accepted + 1
              /\ lastEvent' = "handleImageClick"
  /\ lastInput' = [click |-> click, rect |-> rect]
  /\ UNCHANGED <<searchVars, filterVars>>
  /\ errCalls' = <<>>
  /\ UNCHANGED <<appVars, pageVars, instance, contours, serverSize,
                 nextSessionId, uploads>>

\* mutant of Live: the setters of an unmounted instance reach the new one
LiveAnyInstance(r) == Mounted

\* the instance that issued request r is still the mounted one; React drops
\* the state updates of an unmounted instance
Live(r) == Mounted /\ r.instance = instance

\* mutant of ApplyResult: the polygons are added to the ones shown
ApplyResultAddsContours(result) ==
  /\ contours' = contours \o result.contours
  /\ serverSize' = [width |-> result.width, height |-> result.height]

\* mutant of ApplyResult: setServerSize is forgotten
ApplyResultContoursOnly(result) ==
  /\ contours' = result.contours
  /\ UNCHANGED serverSize

\* the try block after the await: setContours, setServerSize
ApplyResult(result) ==
  /\ contours' = result.contours
  /\ serverSize' = [width |-> result.width, height |-> result.height]

\* mutant of CatchError: the point that triggered the call is rolled back
CatchErrorRollsBack(detail) ==
  /\ error' = PredictErrorMessage(detail)
  /\ errCalls' = <<PredictErrorMessage(detail)>>
  /\ points' = SubSeq(points, 1, Len(points) - 1)
  /\ labels' = SubSeq(labels, 1, Len(labels) - 1)
  /\ UNCHANGED <<contours, serverSize>>

\* mutant of CatchError: the error is reported twice
CatchErrorReportsTwice(detail) ==
  /\ error' = PredictErrorMessage(detail)
  /\ errCalls' = <<PredictErrorMessage(detail), PredictErrorMessage(detail)>>
  /\ UNCHANGED <<points, labels, contours, serverSize>>

\* the catch block: onError(String(message)), nothing else
CatchError(detail) ==
  /\ error' = PredictErrorMessage(detail)
  /\ errCalls' = <<PredictErrorMessage(detail)>>
  /\ UNCHANGED <<points, labels, contours, serverSize>>

\* predictMask resolves with result
predictMaskResolved(i, result) ==
  /\ i \in 1..Len(inflight)
  /\ inflight' = RemoveAt(inflight, i)
  /\ IF Live(inflight[i])
     THEN /\ ApplyResult(result)
          /\ isPredicting' = FALSE
     ELSE UNCHANGED <<contours, serverSize, isPredicting>>
  /\ lastEvent' = "predictMaskResolved"
  /\ UNCHANGED <<searchVars, filterVars>>
  /\ lastInput' = result
  /\ errCalls' = <<>>
  /\ UNCHANGED <<appVars, pageVars, instance, points, labels,
                 nextSessionId, uploads, accepted>>

\* mutant of predictMaskRejected: there is no finally, isPredicting stays
predictMaskRejectedNoFinally(i, detail) ==
  /\ i \in 1..Len(inflight)
  /\ inflight' = RemoveAt(inflight, i)
  /\ CatchError(detail)
  /\ UNCHANGED isPredicting
  /\ lastEvent' = "predictMaskRejected"
  /\ UNCHANGED <<searchVars, filterVars>>
  /\ lastInput' = detail
  /\ UNCHANGED <<session, imageUrl, pageVars, instance,
                 nextSessionId, uploads, accepted>>

\* predictMask rejects: the catch, then the finally clears isPredicting
predictMaskRejected(i, detail) ==
  /\ i \in 1..Len(inflight)
  /\ inflight' = RemoveAt(inflight, i)
  /\ CatchError(detail)
  /\ IF Live(inflight[i])
     THEN isPredicting' = FALSE
     ELSE UNCHANGED isPredicting
  /\ lastEvent' = "predictMaskRejected"
  /\ UNCHANGED <<searchVars, filterVars>>
  /\ lastInput' = detail
  /\ UNCHANGED <<session, imageUrl, pageVars, instance,
                 nextSessionId, uploads, accepted>>

Next ==
  \/ \E file \in Files : Drop(file)
  \/ \E info \in AppImageInfos : createSessionResolved(info)
  \/ createSessionRejected
  \/ handleCloseError
  \/ NewImage
  \/ \E mode \in {"add", "remove"} : setPromptMode(mode)
  \/ resetSignal < MaxAppResets /\ ResetPrompt
  \/ /\ ClickIgnored \/ Len(points) < MaxAppHistory
     /\ \E click \in AppClicks, rect \in Rects : handleImageClick(click, rect)
  \/ \E i \in 1..Len(inflight), result \in Responses : predictMaskResolved(i, result)
  \/ \E i \in 1..Len(inflight), detail \in Details : predictMaskRejected(i, detail)

Spec == Init /\ [][Next]_vars

(***************************************************************************)
(* One ImagePreview: the instance mounted for the first session, with the  *)
(* events that reach it while it stays mounted.  A second upload may still *)
(* be awaited, so its session can change once.                             *)
(***************************************************************************)
\* the state after the first createSession resolved with image_info info,
\* while pending more createSession calls are awaited
FirstMount(info, pending) ==
  /\ session = [session_id |-> 1, image_info |-> info]
  /\ imageUrl = 1
  /\ error = ""
  /\ promptMode = "add"
  /\ resetSignal = 0
  /\ instance = 1
  /\ points = <<>>
  /\ labels = <<>>
  /\ contours = <<>>
  /\ serverSize = Null
  /\ isPredicting = FALSE
  /\ nextSessionId = 2
  /\ uploads = pending
  /\ inflight = <<>>
  /\ showResults = FALSE
  /\ searchResults = Null
  /\ isSearching = FALSE
  /\ searches = <<>>
  /\ selectedColorGroups = {}
  /\ selectedCategories = {}
  /\ minPrice = 0
  /\ maxPrice = 500000
  /\ lastEvent = "createSessionResolved"
  /\ lastInput = info
  /\ errCalls = <<>>
  /\ accepted = 0

WidgetInit == \E info \in ImageInfos, pending \in {0, 1} : FirstMount(info, pending)

WidgetNext ==
  \/ \E info \in ImageInfos : createSessionResolved(info)
  \/ handleCloseError
  \/ \E mode \in {"add", "remove"} : setPromptMode(mode)
  \/ ResetPrompt
  \/ \E click \in Clicks, rect \in Rects : handleImageClick(click, rect)
  \/ \E i \in 1..Len(inflight), result \in Responses : predictMaskResolved(i, result)
  \/ \E i \in 1..Len(inflight), detail \in Details : predictMaskRejected(i, detail)

WidgetSpec == WidgetInit /\ [][WidgetNext]_vars

\* a request in flight ends: the server answers, or the call fails; axios
\* is created with timeout: 30000, so a request that gets no answer is
\* rejected after 30 s
RequestCompletes ==
  \/ \E i \in 1..Len(inflight), result \in Responses : predictMaskResolved(i, result)
  \/ \E i \in 1..Len(inflight), detail \in Details \cup ArrayDetails :
        predictMaskRejected(i, detail)

\* the events of the widget with the one click position of the whole
\* application: a session change, ADD / REMOVE, RESET, a resize, a click, the
\* end of a request
CoreNext ==
  \/ \E info \in ImageInfos : createSessionResolved(info)
  \/ \E mode \in {"add", "remove"} : setPromptMode(mode)
  \/ ResetPrompt
  \/ \E rect \in SvgRects : Resize(rect)
  \/ \E click \in AppClicks, rect \in Rects : handleImageClick(click, rect)
  \/ RequestCompletes

CoreSpec == WidgetInit /\ [][CoreNext]_vars

\* the same, with every request in flight ending at some time
CoreFairSpec == WidgetInit /\ [][CoreNext]_vars /\ WF_vars(RequestCompletes)

(***************************************************************************)
(* The clicks alone: the same instance, and clicks at any of the wider     *)
(* positions, in any of the wider rects.                                   *)
(***************************************************************************)
ClickInit == \E info \in GeomImageInfos : FirstMount(info, 0)

ClickNext ==
  \/ \E click \in GeomClicks, rect \in GeomRects : handleImageClick(click, rect)
  \/ \E i \in 1..Len(inflight), result \in Responses : predictMaskResolved(i, result)
  \/ \E i \in 1..Len(inflight), detail \in Details : predictMaskRejected(i, detail)

ClickSpec == ClickInit /\ [][ClickNext]_vars

(***************************************************************************)
(* The contour overlay: an <svg> over the image whose viewBox is the size  *)
(* the response declared, with preserveAspectRatio="xMidYMid meet".  Each  *)
(* contour is a <polygon> whose points attribute lists x,y as the response *)
(* gave them, so the browser places them by the viewBox transform.         *)
(***************************************************************************)
\* the overlay is rendered at all
OverlayShown == contours # <<>> /\ serverSize # Null /\ imageUrl # 0

\* where user-space point p of a viewBox "0 0 width height" lands in an
\* <svg> laid out as svgRect, under xMidYMid meet: one scale for both axes,
\* the smaller of the two ratios, and the scaled box centred
ViewBoxTransform(p, viewBox, svgRect) ==
  LET scaleX == RDiv(Num(svgRect.width), Num(viewBox.width))
      scaleY == RDiv(Num(svgRect.height), Num(viewBox.height))
      scale == MathMin(scaleX, scaleY)
      translateX ==
        RDiv(RSub(Num(svgRect.width), RMul(Num(viewBox.width), scale)), Num(2))
      translateY ==
        RDiv(RSub(Num(svgRect.height), RMul(Num(viewBox.height), scale)), Num(2))
  IN  <<RAdd(RMul(Num(p[1]), scale), translateX),
        RAdd(RMul(Num(p[2]), scale), translateY)>>

\* mutant of RenderedContours: the viewBox is the size of the upload
RenderedContoursUploadBox(svgRect) ==
  [i \in 1..Len(contours) |->
    [k \in 1..Len(contours[i]) |->
      ViewBoxTransform(contours[i][k], session.image_info, svgRect)]]

\* the display pixels of the polygons drawn in an overlay laid out as svgRect
RenderedContours(svgRect) ==
  [i \in 1..Len(contours) |->
    [k \in 1..Len(contours[i]) |->
      ViewBoxTransform(contours[i][k], serverSize, svgRect)]]

\* The search of BagPage from the start of the application: uploads, NEW
\* IMAGE, SEARCH and the ways a search ends.
SearchNext ==
  \/ \E file \in Files : Drop(file)
  \/ \E info \in AppImageInfos : createSessionResolved(info)
  \/ createSessionRejected
  \/ handleCloseError
  \/ NewImage
  \/ handleSearch
  \/ \E i \in 1..Len(searches), results \in SearchResponses :
        searchBagsResolved(i, results)
  \/ \E i \in 1..Len(searches), detail \in Details : searchBagsRejected(i, detail)

SearchSpec == Init /\ [][SearchNext]_vars

\* The filter panel, from the state in which it first appears: the first
\* search of the first session has succeeded.
FilterInit ==
  /\ session = [session_id |-> 1, image_info |-> [width |-> 400, height |-> 400]]
  /\ imageUrl = 1
  /\ error = ""
  /\ promptMode = "add"
  /\ resetSignal = 0
  /\ instance = 1
  /\ points = <<>>
  /\ labels = <<>>
  /\ contours = <<>>
  /\ serverSize = Null
  /\ isPredicting = FALSE
  /\ nextSessionId = 2
  /\ uploads = 0
  /\ inflight = <<>>
  /\ showResults = TRUE
  /\ searchResults \in SearchResponses
  /\ isSearching = FALSE
  /\ searches = <<>>
  /\ selectedColorGroups = {}
  /\ selectedCategories = {}
  /\ minPrice = 0
  /\ maxPrice = 500000
  /\ lastEvent = "searchBagsResolved"
  /\ lastInput = searchResults
  /\ errCalls = <<>>
  /\ accepted = 0

FilterNext ==
  \/ \E groupId \in ColorGroups : toggleColorGroup(groupId)
  \/ \E category \in Categories : toggleCategory(category)
  \/ \E value \in SliderValues : onMinPriceChange(value)
  \/ \E value \in SliderValues : onMaxPriceChange(value)
  \/ FilterReset

FilterSpec == FilterInit /\ [][FilterNext]_vars

(***************************************************************************)
(* Properties of the annotation widget.                                    *)
(***************************************************************************)
\* C1: at most one prediction request is outstanding per session, in every
\* reachable state.
C1_SingleFlight ==
  \A i, j \in 1..Len(inflight) :
    inflight[i].session_id = inflight[j].session_id => i = j

\* C1 witness: a RESET and then a click arrived while the request issued
\* before them was outstanding, and there is still only that request.
C1_Witness ==
  /\ lastEvent = "click_dropped"
  /\ resetSignal > 0
  /\ Len(inflight) = 1
  /\ inflight[1].resetSignal < resetSignal
  /\ points = <<>>

\* C2: a response to a request issued before a RESET is discarded: once a
\* click has followed the RESET, the completion of the earlier request
\* does not repopulate contours.
C2_StaleResponseDiscarded ==
  [][\A i \in 1..Len(inflight) :
       (/\ inflight' = RemoveAt(inflight, i)
        /\ Live(inflight[i])
        /\ inflight[i].resetSignal < resetSignal
        /\ lastEvent = "click_dropped")
       => UNCHANGED contours]_vars

C4_ClickWhilePendingDropped ==
  [][(isPredicting /\ lastEvent' \in {"handleImageClick", "click_dropped"}) =>
       /\ lastEvent' = "click_dropped"
       /\ UNCHANGED <<points, labels, inflight>>]_vars

\* C4 witness: a click was dropped with a one-point history and its
\* request in flight.
C4_Witness ==
  /\ lastEvent = "click_dropped"
  /\ isPredicting
  /\ Len(points) = 1
  /\ Len(inflight) = 1
  /\ inflight[1].points = points

\* C5: points and labels have the same length in every reachable state.
C5_SameLength == Len(points) = Len(labels)

\* C5 witness: a history of two pairs built after a RESET.
C5_Witness ==
  /\ resetSignal > 0
  /\ Len(points) = 2
  /\ Len(labels) = 2

\* C6: after N accepted clicks with no reset or session change in between,
\* points and labels both have length N, whether the requests succeeded or
\* failed.
C6_LengthIsAcceptedClicks ==
  /\ Len(points) = accepted
  /\ Len(labels) = accepted

\* C6 witness: two clicks were accepted, the first request succeeded and
\* the second failed.
C6_Witness ==
  /\ accepted = 2
  /\ lastEvent = "predictMaskRejected"
  /\ ~isPredicting
  /\ contours # <<>>
  /\ Len(points) = 2

\* C7: the request an accepted click issues carries the whole history after
\* the append, points and labels of equal length, under the current session
\* id.
C7_RequestCarriesHistory ==
  [][Len(inflight') > Len(inflight) =>
       LET r == inflight'[Len(inflight')]
       IN  /\ r.points = points'
           /\ r.labels = labels'
           /\ SubSeq(r.points, 1, Len(points)) = points
           /\ SubSeq(r.labels, 1, Len(labels)) = labels
           /\ Len(r.points) = Len(points) + 1
           /\ Len(r.labels) = Len(r.points)
           /\ r.session_id = session.session_id]_vars

\* C7 witness: the request of a second click is in flight with both pairs.
C7_Witness ==
  /\ lastEvent = "handleImageClick"
  /\ Len(inflight) = 1
  /\ Len(inflight[1].points) = 2
  /\ inflight[1].points = points
  /\ inflight[1].labels = labels
  /\ labels = <<1, 0>>

\* C8: when a request fails, isPredicting of the issuing widget is cleared,
\* points, labels, contours and serverSize are not changed (with no reset
\* or session change since the request was issued, the history is the one
\* the request carried, triggering point included), and onError is called
\* exactly once, with a non-empty message.
C8_FailureKeepsState ==
  [][lastEvent' = "predictMaskRejected" =>
       \E i \in 1..Len(inflight) :
         LET r == inflight[i]
         IN  /\ inflight' = RemoveAt(inflight, i)
             /\ Live(r) => isPredicting' = FALSE
             /\ UNCHANGED <<points, labels, contours, serverSize>>
             /\ (/\ Live(r)
                 /\ r.resetSignal = resetSignal
                 /\ r.session_id = session.session_id)
                => (points' = r.points /\ labels' = r.labels)
             /\ Len(errCalls') = 1
             /\ errCalls'[1] # ""]_vars

\* C8 witness: the second request failed after the first had succeeded;
\* both points are kept and the contours are those of the first response.
C8_Witness ==
  /\ lastEvent = "predictMaskRejected"
  /\ Len(errCalls) = 1
  /\ ~isPredicting
  /\ Len(points) = 2
  /\ contours = <<Poly1>>
  /\ inflight = <<>>

\* C9 as claimed: contours and serverSize are both empty or both present.
C9_BothOrNeither == (contours = <<>>) <=> (serverSize = Null)

\* C9 amended: whenever contours is not empty, serverSize is present.
C9_ContoursHaveSize == contours # <<>> => serverSize # Null

\* C9 witness: a response with a polygon has been applied.
C9_Witness ==
  /\ lastEvent = "predictMaskResolved"
  /\ contours = <<Poly1>>
  /\ serverSize = [width |-> 500, height |-> 500]

\* p lies in [0, width] x [0, height] of info
InImage(p, info) ==
  /\ RLe(Num(0), p[1])
  /\ RLe(p[1], Num(info.width))
  /\ RLe(Num(0), p[2])
  /\ RLe(p[2], Num(info.height))

\* C10: every point of the history, and every point of a request sent under
\* the current session, lies in [0, width] x [0, height] of the session's
\* image, whatever the click position and the (positive) size of the rect.
C10_PointsInImage ==
  Mounted =>
    /\ \A k \in 1..Len(points) : InImage(points[k], session.image_info)
    /\ \A i \in 1..Len(inflight) :
         inflight[i].session_id = session.session_id =>
           \A k \in 1..Len(inflight[i].points) :
             InImage(inflight[i].points[k], session.image_info)

\* C10 witness: on a 400 x 400 image shown in a 300 x 400 rect, a click at
\* (-50, -50) was stored as (0, 0) and one at (100, 100) as (400/3, 200/3),
\* and both were sent.
C10_Witness ==
  /\ session.image_info = [width |-> 400, height |-> 400]
  /\ points = <<<<Num(0), Num(0)>>, <<<<400, 3>>, <<200, 3>>>>>>
  /\ Len(inflight) = 1
  /\ inflight[1].points = points

\* C11: the click-to-image mapping on its two stated cases: in an 800 x 400
\* rect showing a 400 x 400 image, an accepted click at (200, 0) is stored
\* as (0, 0) and one at (600, 400) as (400, 400), whatever the history and
\* the prompt mode.
C11_MappingCases ==
  (/\ lastEvent = "handleImageClick"
   /\ lastInput.rect = [width |-> 800, height |-> 400]
   /\ session.image_info = [width |-> 400, height |-> 400])
  => LET p == points[Len(points)]
     IN  /\ lastInput.click = [x |-> 200, y |-> 0] => p = <<Num(0), Num(0)>>
         /\ lastInput.click = [x |-> 600, y |-> 400] => p = <<Num(400), Num(400)>>

\* C11 witness: both cases happened in a row: (200, 0) and then (600, 400).
C11_Witness ==
  /\ lastEvent = "handleImageClick"
  /\ lastInput = [click |-> [x |-> 600, y |-> 400],
                  rect |-> [width |-> 800, height |-> 400]]
  /\ session.image_info = [width |-> 400, height |-> 400]
  /\ points = <<<<Num(0), Num(0)>>, <<Num(400), Num(400)>>>>

\* C12: a click is accepted wherever it lands once no request is
\* outstanding: a click left of (above) the displayed image is stored with
\* x (y) = 0, one right of (below) it with x = width (y = height), and the
\* point is appended to the history and sent in the request of that click.
C12_OutsideClickClamped ==
  [][(~isPredicting /\ lastEvent' \in {"handleImageClick", "click_dropped"}) =>
       LET w == session.image_info.width
           h == session.image_info.height
           c == lastInput'.click
           box == DisplayBox(lastInput'.rect, w, h)
           p == points'[Len(points')]
       IN  /\ lastEvent' = "handleImageClick"
           /\ Len(points') = Len(points) + 1
           /\ inflight'[Len(inflight')].points = points'
           /\ RLt(Num(c.x), box.offsetX) => p[1] = Num(0)
           /\ RLt(Num(c.y), box.offsetY) => p[2] = Num(0)
           /\ RLt(RSub(Num(c.x), box.offsetX), box.displayWidth) \/ p[1] = Num(w)
           /\ RLt(RSub(Num(c.y), box.offsetY), box.displayHeight) \/ p[2] = Num(h)
           /\ RLe(Num(0), p[1]) /\ RLe(Num(0), p[2])]_vars

\* C12 witness: on a 400 x 400 image shown in an 800 x 400 rect (padding of
\* 200 on the left and on the right), a click at (-50, -50) was stored as
\* (0, 0), then one at (900, 500) as (400, 400), and both were sent.
C12_Witness ==
  /\ lastEvent = "handleImageClick"
  /\ lastInput = [click |-> [x |-> 900, y |-> 500],
                  rect |-> [width |-> 800, height |-> 400]]
  /\ session.image_info = [width |-> 400, height |-> 400]
  /\ points = <<<<Num(0), Num(0)>>, <<Num(400), Num(400)>>>>
  /\ inflight[Len(inflight)].points = points

C14_LabelFollowsPromptMode ==
  [][lastEvent' = "handleImageClick" =>
       LET label == labels'[Len(labels')]
       IN  /\ Len(labels') = Len(points')
           /\ Len(labels') = Len(labels) + 1
           /\ SubSeq(labels', 1, Len(labels)) = labels
           /\ label = 0 <=> promptMode = "remove"
           /\ label = 1 <=> promptMode # "remove"
           /\ \A k \in 1..Len(labels') : labels'[k] \in {0, 1}
           /\ inflight'[Len(inflight')].labels = labels']_vars

\* C14 witness: after NEW IMAGE and a second upload no mode is selected, and
\* a click was accepted with label 1.
C14_Witness ==
  /\ lastEvent = "handleImageClick"
  /\ promptMode = "null"
  /\ instance = 2
  /\ labels = <<1>>
  /\ inflight[Len(inflight)].labels = <<1>>

\* C15 as claimed: a dropped file whose type is not an image type, or whose
\* size is above 15MB, never reaches session creation: onDrop reports an
\* error, calls neither createSession nor onSessionCreated, and the session
\* stays unset.
C15_BadFileReportsError ==
  [][(/\ lastEvent' = "onDrop"
      /\ \/ ~StartsWith(lastInput'.type, "image/")
         \/ lastInput'.size > 15 * 1024 * 1024) =>
       /\ uploads' = uploads
       /\ session' = Null
       /\ Len(errCalls') = 1
       /\ errCalls'[1] # ""
       /\ error' = errCalls'[1]]_vars

\* C15 amended: such a file never reaches session creation: createSession
\* and onSessionCreated are not called and the session stays unset.  onDrop
\* reports one error when the dropzone hands it the file (an image above
\* 15MB, or a file of another type whose name ends in .jpeg, .jpg, .png or
\* .webp); a file the dropzone's accept option filters out is ignored
\* without an error.
C15_BadFileNeverCreatesSession ==
  [][(/\ lastEvent' = "onDrop"
      /\ \/ ~StartsWith(lastInput'.type, "image/")
         \/ lastInput'.size > 15 * 1024 * 1024) =>
       /\ uploads' = uploads
       /\ session = Null
       /\ session' = Null
       /\ imageUrl' = 0
       /\ nextSessionId' = nextSessionId
       /\ IF \/ StartsWith(lastInput'.type, "image/")
             \/ lastInput'.ext \in {".jpeg", ".jpg", ".png", ".webp"}
          THEN /\ Len(errCalls') = 1
               /\ errCalls'[1] # ""
               /\ error' = errCalls'[1]
          ELSE /\ errCalls' = <<>>
               /\ error' = error]_vars

\* C15 witness: a PDF was dropped after a PNG of 15MB + 1 byte had been
\* refused: the PDF left no message of its own, the banner still shows the
\* one of the PNG, and no createSession call is awaited.
C15_Witness ==
  /\ lastEvent = "onDrop"
  /\ lastInput = [type |-> "application/pdf", size |-> 2 * 1024 * 1024, ext |-> ".pdf"]
  /\ errCalls = <<>>
  /\ error = TooLargeError
  /\ session = Null
  /\ uploads = 0

C17_PendingEventuallyCleared == isPredicting ~> ~isPredicting

\* C17 witness: a request ended without a response (transport failure or
\* timeout) after a RESET had been pressed while it was outstanding, and
\* isPredicting is cleared.
C17_Witness ==
  /\ lastEvent = "predictMaskRejected"
  /\ lastInput = Null
  /\ resetSignal > 0
  /\ accepted = 0
  /\ error = DefaultPredictError
  /\ ~isPredicting
  /\ inflight = <<>>

\* C18: a failed prediction leaves the widget usable.  The failure keeps
\* the history its request carried (no RESET and no session change since
\* its click) and clears isPredicting; the next click is accepted, appends
\* one point and label after the ones kept, and issues a request that
\* carries them all, the point that triggered the failed call included.
C18_UsableAfterFailure ==
  [][/\ lastEvent' = "predictMaskRejected" =>
          \E i \in 1..Len(inflight) :
            LET r == inflight[i]
            IN  /\ inflight' = RemoveAt(inflight, i)
                /\ ~isPredicting'
                /\ (r.resetSignal = resetSignal /\ r.session_id = session.session_id)
                     => (/\ points' = r.points
                         /\ labels' = r.labels
                         /\ Len(points') > 0)
     /\ (/\ lastEvent = "predictMaskRejected"
         /\ lastEvent' \in {"handleImageClick", "click_dropped"}) =>
          LET r == inflight'[Len(inflight')]
          IN  /\ lastEvent' = "handleImageClick"
              /\ Len(inflight') = Len(inflight) + 1
              /\ Len(points') = Len(points) + 1
              /\ SubSeq(points', 1, Len(points)) = points
              /\ SubSeq(labels', 1, Len(labels)) = labels
              /\ r.points = points'
              /\ r.labels = labels'
              /\ \A k \in 1..Len(points) : r.points[k] = points[k]]_vars

\* C18 witness: the request of the first click failed (nothing was ever
\* applied and the banner shows the message), and the second click was
\* accepted: its request carries both points.
C18_Witness ==
  /\ lastEvent = "handleImageClick"
  /\ resetSignal = 0
  /\ session.session_id = 1
  /\ serverSize = Null
  /\ error = "Session expired"
  /\ Len(points) = 2
  /\ Len(inflight) = 1
  /\ inflight[1].points = points
  /\ isPredicting

\* C19: RESET can be pressed while a request is outstanding and does not
\* cancel it: the press takes effect (the counter goes up, the history is
\* cleared), the request stays in flight with isPredicting set, and when a
\* request issued before a RESET ends, its completion is delivered to the
\* widget: isPredicting is cleared, a response is applied, a failure is
\* reported.
C19_ResetKeepsRequest ==
  [][/\ (isPredicting /\ resetSignal < MaxResets) => ENABLED ResetPrompt
     /\ (isPredicting /\ resetSignal' # resetSignal) =>
          /\ resetSignal' = resetSignal + 1
          /\ points' = <<>>
          /\ inflight' = inflight
          /\ Len(inflight') > 0
          /\ isPredicting'
     /\ \A i \in 1..Len(inflight) :
          (/\ inflight' = RemoveAt(inflight, i)
           /\ Live(inflight[i])
           /\ inflight[i].resetSignal < resetSignal) =>
            /\ ~isPredicting'
            /\ lastEvent' = "predictMaskResolved" =>
                 /\ contours' = lastInput'.contours
                 /\ serverSize' = [width |-> lastInput'.width,
                                   height |-> lastInput'.height]
            /\ lastEvent' = "predictMaskRejected" =>
                 /\ Len(errCalls') = 1
                 /\ error' = errCalls'[1]]_vars

\* C19 witness: a response was applied after the second RESET with no click
\* accepted since, so its request was outstanding when RESET was pressed.
C19_Witness ==
  /\ lastEvent = "predictMaskResolved"
  /\ resetSignal = 2
  /\ accepted = 0
  /\ points = <<>>
  /\ contours = <<Poly1>>
  /\ ~isPredicting
  /\ inflight = <<>>

\* C20: when a request of the widget succeeds, contours becomes exactly
\* the contours of the response and serverSize its (width, height),
\* whatever was shown before, isPredicting is cleared, and points and
\* labels are not changed.
C20_SuccessOverwritesResult ==
  [][lastEvent' = "predictMaskResolved" =>
       /\ contours' = lastInput'.contours
       /\ serverSize' = [width |-> lastInput'.width, height |-> lastInput'.height]
       /\ ~isPredicting'
       /\ UNCHANGED <<points, labels, accepted>>
       /\ Len(inflight') = Len(inflight) - 1]_vars

\* C20 witness: the response to the second click had no contours: nothing
\* is shown, serverSize is the 400 x 400 of that response, and the history
\* still has both points.
C20_Witness ==
  /\ lastEvent = "predictMaskResolved"
  /\ lastInput = [contours |-> <<>>, width |-> 400, height |-> 400]
  /\ contours = <<>>
  /\ serverSize = [width |-> 400, height |-> 400]
  /\ ~isPredicting
  /\ Len(points) = 2
  /\ Len(labels) = 2
  /\ inflight = <<>>

\* C21: the history is append-only except on reset: an accepted click keeps
\* every pair it finds, in place, and adds exactly one pair at the end; any
\* other change of points or labels is a RESET press or a session change,
\* and leaves both empty.
C21_AppendOnlyExceptReset ==
  [][/\ lastEvent' = "handleImageClick" =>
          /\ Len(points') = Len(points) + 1
          /\ Len(labels') = Len(labels) + 1
          /\ \A k \in 1..Len(points) :
               points'[k] = points[k] /\ labels'[k] = labels[k]
     /\ (lastEvent' # "handleImageClick" /\ <<points, labels>>' # <<points, labels>>) =>
          /\ \/ resetSignal' = resetSignal + 1
             \/ session'.session_id # session.session_id
          /\ points' = <<>>
          /\ labels' = <<>>]_vars

\* C21 witness: after a RESET two clicks were accepted: the second found
\* the pair of the first and added its own.
C21_Witness ==
  /\ lastEvent = "handleImageClick"
  /\ resetSignal = 1
  /\ Len(points) = 2
  /\ Len(labels) = 2
  /\ Len(inflight) = 1
  /\ inflight[1].resetSignal = 1
  /\ inflight[1].points = points

\* C22: responses are applied in the order their requests were issued: a
\* response applied to the widget belongs to the request the widget issued
\* most recently (it has issued none since, and has no other in flight), and
\* the contours shown after it are those of that response.
C22_AppliedInIssueOrder ==
  [][\A i \in 1..Len(inflight) :
       (/\ lastEvent' = "predictMaskResolved"
        /\ inflight' = RemoveAt(inflight, i)
        /\ Live(inflight[i])) =>
         /\ ~inflight[i].superseded
         /\ \A j \in 1..Len(inflight) :
              j # i => inflight[j].instance # inflight[i].instance
         /\ contours' = lastInput'.contours]_vars

\* C22 witness: the responses to two clicks in a row were applied, the
\* second one last: the polygon shown is the one it brought.
C22_Witness ==
  /\ lastEvent = "predictMaskResolved"
  /\ lastInput = [contours |-> <<Poly1>>, width |-> 500, height |-> 500]
  /\ resetSignal = 0
  /\ session.session_id = 1
  /\ accepted = 2
  /\ Len(points) = 2
  /\ contours = <<Poly1>>
  /\ inflight = <<>>
  /\ ~isPredicting

\* C23: the display box handleImageClick computes for the rect of a click.
\* When the image is relatively wider than the rect (w / h > W / H) the box
\* is width-constrained: W wide, W * h / w high, offsets (0, (H - height) /
\* 2); otherwise height-constrained: H high, H * w / h wide, offsets ((W -
\* width) / 2, 0).  It never exceeds the rect, both offsets are >= 0, both
\* are 0 when the aspects are equal, and it has the aspect of the image.
C23_ContainFit ==
  lastEvent \in {"handleImageClick", "click_dropped"} =>
    LET W == lastInput.rect.width
        H == lastInput.rect.height
        w == session.image_info.width
        h == session.image_info.height
        box == DisplayBox(lastInput.rect, w, h)
    IN  /\ IF w * H > W * h
           THEN /\ box.displayWidth = Num(W)
                /\ box.displayHeight = Norm(W * h, w)
                /\ box.offsetX = Num(0)
                /\ box.offsetY = Norm(H * w - W * h, 2 * w)
           ELSE /\ box.displayHeight = Num(H)
                /\ box.displayWidth = Norm(H * w, h)
                /\ box.offsetY = Num(0)
                /\ box.offsetX = Norm(W * h - H * w, 2 * h)
        /\ RLe(box.displayWidth, Num(W))
        /\ RLe(box.displayHeight, Num(H))
        /\ RLt(Num(0), box.displayWidth)
        /\ RLt(Num(0), box.displayHeight)
        /\ RLe(Num(0), box.offsetX)
        /\ RLe(Num(0), box.offsetY)
        /\ w * H = W * h => (box.offsetX = Num(0) /\ box.offsetY = Num(0))
        /\ RMul(box.displayWidth, Num(h)) = RMul(box.displayHeight, Num(w))
        /\ RAdd(box.displayWidth, RMul(Num(2), box.offsetX)) = Num(W)
        /\ RAdd(box.displayHeight, RMul(Num(2), box.offsetY)) = Num(H)

\* C23 witness: a 400 x 200 image was clicked in a 300 x 400 rect: the box
\* is 300 x 150, 125 below the top.
C23_Witness ==
  /\ lastEvent = "handleImageClick"
  /\ lastInput.rect = [width |-> 300, height |-> 400]
  /\ session.image_info = [width |-> 400, height |-> 200]
  /\ DisplayBox(lastInput.rect, 400, 200) =
       [displayWidth |-> Num(300), displayHeight |-> Num(150),
        offsetX |-> Num(0), offsetY |-> Num(125)]

\* C24: resetSignal only grows: a RESET press adds exactly 1 to it, no other
\* event changes it, and every step that changes it leaves points, labels,
\* contours and serverSize empty.
C24_ResetCounterMonotonic ==
  [][/\ resetSignal' >= resetSignal
     /\ lastEvent' = "ResetPrompt" <=> resetSignal' = resetSignal + 1
     /\ resetSignal' # resetSignal =>
          /\ resetSignal' = resetSignal + 1
          /\ points' = <<>>
          /\ labels' = <<>>
          /\ contours' = <<>>
          /\ serverSize' = Null]_vars

\* C24 witness: RESET was pressed a second time, with no request
\* outstanding; the annotation is empty and the mode is 'add'.
C24_Witness ==
  /\ lastEvent = "ResetPrompt"
  /\ resetSignal = 2
  /\ ~isPredicting
  /\ inflight = <<>>
  /\ points = <<>>
  /\ labels = <<>>
  /\ contours = <<>>
  /\ serverSize = Null
  /\ promptMode = "add"

\* C25: ADD / REMOVE, a resize and a re-render change none of points,
\* labels, contours, serverSize, isPredicting and the requests in flight;
\* these change only in a click, in the end of the click's request, in RESET
\* and in a session change.
C25_OnlyClickAndResetMutate ==
  [][/\ lastEvent' \in {"setPromptMode", "Resize"} =>
          UNCHANGED <<points, labels, contours, serverSize, isPredicting, inflight>>
     /\ ~UNCHANGED <<points, labels, contours, serverSize, isPredicting>> =>
          lastEvent' \in {"handleImageClick", "predictMaskResolved",
                          "predictMaskRejected", "ResetPrompt",
                          "createSessionResolved"}]_vars

\* C25 witness: REMOVE was pressed while the second click's request was
\* outstanding and the first one's contour was drawn; all of it is still there.
C25_Witness ==
  /\ lastEvent = "setPromptMode"
  /\ promptMode = "remove"
  /\ Len(points) = 2
  /\ labels = <<1, 1>>
  /\ contours = <<Poly1>>
  /\ serverSize = [width |-> 500, height |-> 500]
  /\ isPredicting
  /\ Len(inflight) = 1

\* C26: every failed request calls onError once with a non-empty message:
\* a string detail as it is, an array detail as the messages of its entries
\* joined by ', ', and the default message when the error has no detail.
C26_FailureMessageFromDetail ==
  lastEvent = "predictMaskRejected" =>
    /\ Len(errCalls) = 1
    /\ errCalls[1] # ""
    /\ error = errCalls[1]
    /\ lastInput = Null => errCalls[1] = DefaultPredictError
    /\ lastInput = [string |-> "Session expired"] => errCalls[1] = "Session expired"
    /\ lastInput = [array |-> <<[msg |-> "field required"]>>] =>
          errCalls[1] = "field required"
    /\ (/\ "array" \in DOMAIN lastInput
        /\ Len(lastInput.array) = 3) =>
          errCalls[1] = "field required, bad label, Validation error"

\* C26 witness: a request failed with a list of three validation errors, one
\* with msg, one with detail and one with neither.
C26_Witness ==
  /\ lastEvent = "predictMaskRejected"
  /\ "array" \in DOMAIN lastInput
  /\ Len(lastInput.array) = 3
  /\ error = "field required, bad label, Validation error"
  /\ ~isPredicting
  /\ Len(points) = 1

\* C27: the end of a request that was issued by a widget that NEW IMAGE has
\* unmounted changes none of points, labels, contours, serverSize and
\* isPredicting, whether the next session is shown already or not; and the
\* widget mounted for the next session starts empty and not predicting.
C27_DiscardedSessionRequestIsInert ==
  [][/\ (/\ lastEvent' \in {"predictMaskResolved", "predictMaskRejected"}
         /\ \A i \in 1..Len(inflight) :
               inflight' = RemoveAt(inflight, i) =>
                 \/ session = Null
                 \/ inflight[i].instance # instance)
           => UNCHANGED <<points, labels, contours, serverSize, isPredicting>>
     /\ instance' # instance =>
           /\ lastEvent' = "createSessionResolved"
           /\ session = Null
           /\ points' = <<>>
           /\ labels' = <<>>
           /\ contours' = <<>>
           /\ serverSize' = Null
           /\ ~isPredicting']_vars

\* C27 witness: the second session is shown, its widget has one point and
\* its own request outstanding; the request of the first session has just
\* succeeded with a contour, and no contour is drawn.
C27_Witness ==
  /\ lastEvent = "predictMaskResolved"
  /\ lastInput.contours = <<Poly1>>
  /\ session # Null
  /\ session.session_id = 2
  /\ Len(points) = 1
  /\ contours = <<>>
  /\ serverSize = Null
  /\ isPredicting
  /\ Len(inflight) = 1
  /\ inflight[1].session_id = 2
  /\ inflight[1].instance = instance

\* C28: the failure of a request that was issued under a session which
\* NEW IMAGE has cleared since (its widget is unmounted) does not set the
\* application's error message.
C28_ErrorOnlyFromActiveSession ==
  [][(/\ lastEvent' = "predictMaskRejected"
      /\ \A i \in 1..Len(inflight) :
            inflight' = RemoveAt(inflight, i) => ~Live(inflight[i]))
        => UNCHANGED error]_vars

\* C29: the end of a search that was issued under a session which is not
\* the active one any more (NEW IMAGE was pressed while it was in flight)
\* shows no results: showResults and searchResults stay as they are.
C29_ResultsOnlyForActiveSession ==
  [][(/\ lastEvent' = "searchBagsResolved"
      /\ \A i \in 1..Len(searches) :
            searches' = RemoveAt(searches, i) =>
              \/ session = Null
              \/ searches[i].session_id # session.session_id)
        => UNCHANGED <<showResults, searchResults>>]_vars

\* C30: in the filter panel 0 <= minPrice < maxPrice <= 500000; a slider
\* change that would make the two ends meet or cross leaves both as they
\* are, any other one is taken, and the filter RESET gives (0, 500000).
C30_PriceRangeOrdered ==
  /\ 0 <= minPrice
  /\ minPrice < maxPrice
  /\ maxPrice <= 500000
  /\ lastEvent = "FilterReset" => minPrice = 0 /\ maxPrice = 500000
  /\ lastEvent = "onMinPriceChange" =>
        \/ minPrice = lastInput.value
        \/ lastInput.value >= maxPrice
  /\ lastEvent = "onMaxPriceChange" =>
        \/ maxPrice = lastInput.value
        \/ lastInput.value <= minPrice

\* C30 witness: the lower end stands at 240000, the upper one at 250000,
\* and a change of the lower end to 250000 has just been ignored.
C30_Witness ==
  /\ lastEvent = "onMinPriceChange"
  /\ lastInput = [value |-> 250000]
  /\ minPrice = 240000
  /\ maxPrice = 250000

====
